---- MODULE Spec2Model ----
(***************************************************************************)
(* MediaForge: the asynchronous task lifecycle.                            *)
(*                                                                         *)
(*   server/main.py   submission endpoints, create_task, get_progress,     *)
(*                    cancel_task, list_tasks, cleanup_cloudinary          *)
(*   worker/**        the six Celery tasks (executors)                     *)
(*                                                                         *)
(* The record store is Redis: one hash per task id, every field a string.  *)
(* hset merges the given fields into the hash and leaves the others.       *)
(* The API handlers are coroutines: every await on Redis, and every call   *)
(* to Cloudinary or Celery, is a point where a worker process may act.     *)
(***************************************************************************)
EXTENDS Integers, Sequences, FiniteSets, TLC

\* ---------------------------------------------------------------- bounds
MaxTasks == 1          \* task ids that uuid4 mints in a behaviour
MaxDeliveries == 2     \* deliveries of one job by the broker (at-least-once)
MaxFiles == 3          \* files of one merge request
MaxPages == 3          \* pages of an uploaded PDF
MaxSources == 275      \* sources of a merge job whose progress is computed (SpecCalc)

\* the ids uuid4 may mint: Spec mints MaxTasks of them, SpecTwo one more
TaskIds == 1..(MaxTasks + 1)
\* an id no submit returned (a client may ask about any string)
UnknownId == MaxTasks + 2
AnyId == TaskIds \cup {UnknownId}

\* ------------------------------------------------------- the record store
Absent == "absent"     \* the field is not in the hash
Fields == {"status", "progress", "result_url", "error"}
EmptyHash == [f \in Fields |-> Absent]      \* hgetall of a missing key: {}

\* redis hset(key, mapping=m): the fields of m are set, the others are kept
HSet(h, m) == [f \in Fields |-> IF f \in DOMAIN m THEN m[f] ELSE h[f]]

\* ------------------------------------------------------------- job types
ImageKinds == {"image.compress", "image.resize", "image.convert"}
PdfKinds == {"pdf.compress", "pdf.merge", "pdf.extract"}
JobKinds == ImageKinds \cup PdfKinds

ContentTypes == {"image/png", "application/pdf", "text/plain"}
IsImage(ct) == ct \in {"image/png"}         \* content_type.startswith("image/")
IsPdf(ct) == ct = "application/pdf"

\* ------------------------------------------------ endpoint validation
\* mutant: the lower bound of quality checked one too low
CompressImageValidFromZero(ct, quality) == IsImage(ct) /\ ~(quality < 0 \/ quality > 100)

CompressImageValid(ct, quality) == IsImage(ct) /\ ~(quality < 1 \/ quality > 100)

ResizeImageValid(ct, width, height) == IsImage(ct) /\ ~(width <= 0 \/ height <= 0)

valid_formats == {"jpg", "jpeg", "png", "webp", "bmp", "tiff", "gif"}
\* str.lower() on the formats a client sends here
Lower(s) == CASE s = "PNG" -> "png" [] s = "JPEG" -> "jpeg" [] OTHER -> s
ConvertImageValid(ct, target_format) == IsImage(ct) /\ Lower(target_format) \in valid_formats

valid_levels == {"low", "medium", "high"}
CompressPdfValid(ct, level) == IsPdf(ct) /\ level \in valid_levels

MergePdfsValid(cts) == ~(Len(cts) < 2) /\ \A i \in 1..Len(cts) : IsPdf(cts[i])

ExtractPdfPagesValid(ct) == IsPdf(ct)

\* ------------------------------------------------------------ requests
Request(kind, cts, quality, width, height, fmt, level, start_page, end_page) ==
    [kind |-> kind, cts |-> cts, quality |-> quality, width |-> width, height |-> height,
     target_format |-> fmt, compression_level |-> level,
     start_page |-> start_page, end_page |-> end_page]

NoRequest == Request("none", <<>>, 0, 0, 0, "", "", 0, 0)

\* the requests clients send
Requests ==
    {Request("image.compress", <<ct>>, q, 0, 0, "", "", 0, 0) :
        ct \in ContentTypes, q \in {0, 1, 100, 101}}
    \cup {Request("image.resize", <<ct>>, 0, w, h, "", "", 0, 0) :
        ct \in ContentTypes, w \in {0, 1}, h \in {-1, 1}}
    \cup {Request("image.convert", <<ct>>, 0, 0, 0, f, "", 0, 0) :
        ct \in ContentTypes, f \in {"PNG", "jpg", "svg"}}
    \cup {Request("pdf.compress", <<ct>>, 0, 0, 0, "", l, 0, 0) :
        ct \in ContentTypes, l \in {"low", "high", "max"}}
    \cup {Request("pdf.merge", cts, 0, 0, 0, "", "", 0, 0) :
        cts \in UNION {[1..len -> {"application/pdf", "image/png"}] : len \in 1..MaxFiles}}
    \cup {Request("pdf.extract", <<ct>>, 0, 0, 0, "", "", p[1], p[2]) :
        ct \in ContentTypes, p \in {<<1, 2>>, <<5, 3>>}}

\* the checks of the endpoint the request is routed to
EndpointValid(r) ==
    CASE r.kind = "image.compress" -> CompressImageValid(r.cts[1], r.quality)
      [] r.kind = "image.resize" -> ResizeImageValid(r.cts[1], r.width, r.height)
      [] r.kind = "image.convert" -> ConvertImageValid(r.cts[1], r.target_format)
      [] r.kind = "pdf.compress" -> CompressPdfValid(r.cts[1], r.compression_level)
      [] r.kind = "pdf.merge" -> MergePdfsValid(r.cts)
      [] OTHER -> ExtractPdfPagesValid(r.cts[1])

\* -------------------------------------------------------------- locators
\* cloudinary.uploader.upload returns a new secure_url on every call
Artifact(url, folder, rtype) == [url |-> url, folder |-> folder, resource_type |-> rtype]

\* the k-th file of the request that became task t
OriginalUrl(t, k) == "mediaforge/originals/" \o ToString(t) \o "-" \o ToString(k)

\* resource_type = "raw" if upload.content_type == "application/pdf" else "auto"
OriginalType(kind) == IF kind \in PdfKinds THEN "raw" ELSE "image"

Folder(kind) ==
    CASE kind = "image.compress" -> "mediaforge/compressed"
      [] kind = "image.resize" -> "mediaforge/resized"
      [] kind = "image.convert" -> "mediaforge/converted"
      [] kind = "pdf.compress" -> "mediaforge/pdf_compressed"
      [] kind = "pdf.merge" -> "mediaforge/pdf_merged"
      [] OTHER -> "mediaforge/pdf_extracted"

\* the result uploaded by the d-th run of task t's job
ResultUrl(kind, t, d) == Folder(kind) \o "/" \o ToString(t) \o "-" \o ToString(d)

\* ------------------------------------------------- progress checkpoints
\* mutant: the job is marked as picked up with progress 0
P0Zero(kind) == "0"

\* the progress written together with status = processing
P0(kind) == IF kind = "image.compress" THEN "5" ELSE "10"

\* merge: progress_per_pdf = 70 / total_pdfs and
\* str(int(10 + (i + 1) * progress_per_pdf)) are computed in IEEE-754 doubles
\* (53 bits, round to nearest even). The three operators below say when the
\* double comes out one unit in the last place below the exact value.
\* 2^s mod n
RECURSIVE TwoPowMod(_, _)
TwoPowMod(s, n) == IF s = 0 THEN 1 % n ELSE (2 * TwoPowMod(s - 1, n)) % n

\* the binary exponent e of 70 / n: 2^e <= 70 / n < 2^(e + 1)
QuotientExp(n) ==
    LET AtMost(e) == IF e >= 0 THEN n * 2^e <= 70 ELSE n <= 70 * 2^(0 - e)
    IN  CHOOSE e \in (0 - 12)..6 : AtMost(e) /\ ~AtMost(e + 1)

\* the binary exponent of the doubles just below the integer x >= 2
ExpBelow(x) == CHOOSE E \in 0..7 : 2^E < x /\ x <= 2^(E + 1)

\* with m = 70 * k / n an integer >= 2: 70 / n was rounded down by r / n units
\* in its last place, where r = 70 * 2^(52 - e) mod n; k times that is more
\* than half a unit in the last place of the doubles below m, so the product
\* is rounded to the double below m; 10 plus it is that far below 10 + m when
\* the doubles below 10 + m are as dense as those below m
FloatLow(k, n) ==
    IF (70 * k) % n # 0 THEN FALSE
    ELSE LET m == (70 * k) \div n
         IN  IF m < 2 THEN FALSE
             ELSE IF ExpBelow(10 + m) # ExpBelow(m) THEN FALSE
             ELSE LET e == QuotientExp(n)
                      r == ((70 % n) * TwoPowMod(52 - e, n)) % n
                  IN  /\ 0 < r
                      /\ 2 * r < n
                      /\ 2 * k * r > n * 2^(ExpBelow(m) - e)

\* mutant: the share of one source not divided by the number of sources
MergeProgressUndivided(i, n) == ToString(10 + i * 70)

\* merge: int(10 + (i + 1) * (70 / total_pdfs)) for every number of sources
\* and every source, i is 1-based here (computed once)
MergeProgressTable ==
    [n \in 1..MaxSources |->
        [i \in 1..n |->
            ((10 * n + i * 70) \div n) - (IF FloatLow(i, n) THEN 1 ELSE 0)]]

\* merge: the string that is stored after the i-th source
MergeProgress(i, n) == ToString(MergeProgressTable[n][i])

\* the progress values an executor writes after P0, in order
Checkpoints(kind, n) ==
    CASE kind = "image.compress" -> <<"15", "25", "35", "55", "75", "85">>
      [] kind = "image.resize" -> <<"30", "50", "70", "85">>
      [] kind = "image.convert" -> <<"30", "60", "80">>
      [] kind = "pdf.compress" -> <<"30", "50", "70", "85">>
      [] kind = "pdf.merge" -> [i \in 1..n |-> MergeProgress(i, n)] \o <<"85", "90">>
      [] OTHER -> <<"30", "50", "75", "90">>

\* the source the executor downloads before it writes checkpoint i + 1
\* (0 when that stretch of the code downloads nothing)
FetchBefore(kind, n, i) ==
    IF kind = "pdf.merge"
    THEN IF i < n THEN i + 1 ELSE 0
    ELSE IF i = 0 THEN 1 ELSE 0

\* ------------------------------------------------------------------ state
VARIABLES
    nextId,      \* the next id uuid4 mints
    store,       \* Redis: task id -> hash
    queue,       \* broker: task id -> the job sent for it
    delivered,   \* broker: how often the job of a task was handed to a worker
    revoked,     \* broker: ids for which a revoke was requested
    artifacts,   \* Cloudinary: the stored resources
    sub,         \* the submission request in flight
    can,         \* the cancel request in flight
    run,         \* task id -> position of the worker running its job
    resp,        \* the response the API sent in the step that led here
    calc         \* SpecCalc: one call of a computation of an executor

vars == <<nextId, store, queue, delivered, revoked, artifacts, sub, can, run, resp, calc>>

\* the kwargs of send_task: the source urls (file_url, or pdf_urls in order)
\* and the page range of an extract
Job(kind, urls, start_page, end_page, target_format) ==
    [kind |-> kind, n |-> Len(urls), urls |-> urls,
     start_page |-> start_page, end_page |-> end_page, target_format |-> target_format]
NoJob == Job("none", <<>>, 0, 0, "")
SubIdle == [pc |-> "idle", req |-> NoRequest, kind |-> "none", n |-> 0, id |-> UnknownId,
            k |-> 0, urls |-> <<>>, start_page |-> 0, end_page |-> 0, target_format |-> ""]
CanIdle == [pc |-> "idle", id |-> UnknownId]
\* outcome: how the last run of the job ended for the broker (the task
\* returned: SUCCESS, it raised: FAILURE, it is running or was lost: none)
RunIdle == [pc |-> "idle", i |-> 0, outcome |-> "none"]

\* total and tasks are filled by list_tasks only
Response(op, code, id, body) ==
    [op |-> op, code |-> code, id |-> id, body |-> body,
     limit |-> 0, offset |-> 0, total |-> 0, tasks |-> <<>>]
\* the step sent no response
Quiet == Response("none", 0, UnknownId, EmptyHash)

\* no computation is looked at on its own
NoCalc == [fn |-> "none"]

InitSystem ==
    /\ nextId = 1
    /\ store = [t \in AnyId |-> EmptyHash]
    /\ queue = [t \in TaskIds |-> NoJob]
    /\ delivered = [t \in TaskIds |-> 0]
    /\ revoked = {}
    /\ artifacts = {}
    /\ sub = SubIdle
    /\ can = CanIdle
    /\ run = [t \in TaskIds |-> RunIdle]
    /\ resp = Quiet

Init == calc = NoCalc /\ InitSystem

\* ------------------------------------------------------------- submission
\* a POST reaches its endpoint
ReceiveUpTo(n) ==
    /\ sub.pc = "idle"
    /\ nextId <= n
    /\ \E r \in Requests : sub' = [SubIdle EXCEPT !.pc = "recv", !.req = r]
    /\ resp' = Quiet
    /\ UNCHANGED <<nextId, store, queue, delivered, revoked, artifacts, can, run, calc>>

Receive == ReceiveUpTo(MaxTasks)

\* the endpoint's checks failed: raise HTTPException(status_code=400, ...)
Reject ==
    /\ sub.pc = "recv"
    /\ ~EndpointValid(sub.req)
    /\ resp' = Response("submit", 400, UnknownId, EmptyHash)
    /\ sub' = SubIdle
    /\ UNCHANGED <<nextId, store, queue, delivered, revoked, artifacts, can, run, calc>>

\* mutant: the id is minted once and used for every task
EnterCreateTaskSameId ==
    /\ sub.pc = "recv"
    /\ EndpointValid(sub.req)
    /\ sub' = [pc |-> "upload", req |-> NoRequest, kind |-> sub.req.kind,
               n |-> Len(sub.req.cts), id |-> 1, k |-> 0, urls |-> <<>>,
               start_page |-> sub.req.start_page, end_page |-> sub.req.end_page,
               target_format |-> Lower(sub.req.target_format)]
    /\ nextId' = nextId + 1
    /\ resp' = Quiet
    /\ UNCHANGED <<store, queue, delivered, revoked, artifacts, can, run, calc>>

\* the checks passed; create_task (merge_pdfs: its own copy of it) starts:
\* task_id = str(uuid.uuid4())
EnterCreateTask ==
    /\ sub.pc = "recv"
    /\ EndpointValid(sub.req)
    /\ sub' = [pc |-> "upload", req |-> NoRequest, kind |-> sub.req.kind,
               n |-> Len(sub.req.cts), id |-> nextId, k |-> 0, urls |-> <<>>,
               start_page |-> sub.req.start_page, end_page |-> sub.req.end_page,
               target_format |-> Lower(sub.req.target_format)]
    /\ nextId' = nextId + 1
    /\ resp' = Quiet
    /\ UNCHANGED <<store, queue, delivered, revoked, artifacts, can, run, calc>>

\* mutant: the record is initialized together with the upload, before send_task
UploadOriginalThenRecord ==
    /\ sub.pc = "upload"
    /\ artifacts' = artifacts \cup
          {Artifact(OriginalUrl(sub.id, sub.k + 1), "mediaforge/originals", OriginalType(sub.kind))}
    /\ store' = [store EXCEPT ![sub.id] = HSet(@, [status |-> "queued", progress |-> "0"])]
    /\ sub' = [sub EXCEPT !.k = sub.k + 1,
                          !.urls = Append(@, OriginalUrl(sub.id, sub.k + 1)),
                          !.pc = IF sub.k + 1 = sub.n THEN "send" ELSE "upload"]
    /\ resp' = Quiet
    /\ UNCHANGED <<nextId, queue, delivered, revoked, can, run, calc>>

\* cloudinary.uploader.upload(file_bytes, folder="mediaforge/originals", ...)
UploadOriginal ==
    /\ sub.pc = "upload"
    /\ artifacts' = artifacts \cup
          {Artifact(OriginalUrl(sub.id, sub.k + 1), "mediaforge/originals", OriginalType(sub.kind))}
    /\ sub' = [sub EXCEPT !.k = sub.k + 1,
                          !.urls = Append(@, OriginalUrl(sub.id, sub.k + 1)),
                          !.pc = IF sub.k + 1 = sub.n THEN "send" ELSE "upload"]
    /\ resp' = Quiet
    /\ UNCHANGED <<nextId, store, queue, delivered, revoked, can, run, calc>>

\* celery_app.send_task(task_name, kwargs={"task_id": ..., ...})
SendTask ==
    /\ sub.pc = "send"
    /\ queue' = [queue EXCEPT ![sub.id] =
          Job(sub.kind, sub.urls, sub.start_page, sub.end_page, sub.target_format)]
    /\ sub' = [sub EXCEPT !.pc = "init"]
    /\ resp' = Quiet
    /\ UNCHANGED <<nextId, store, delivered, revoked, artifacts, can, run, calc>>

\* mutant: the initial progress left out
InitMappingStatusOnly == [status |-> "queued"]

\* the mapping create_task writes
InitMapping == [status |-> "queued", progress |-> "0"]

\* await redis_client.hset(task_id, mapping={"status": "queued", "progress": "0"})
InitRecord ==
    /\ sub.pc = "init"
    /\ store' = [store EXCEPT ![sub.id] = HSet(@, InitMapping)]
    /\ sub' = [sub EXCEPT !.pc = "return"]
    /\ resp' = Quiet
    /\ UNCHANGED <<nextId, queue, delivered, revoked, artifacts, can, run, calc>>

\* return task_id
ReturnTaskId ==
    /\ sub.pc = "return"
    /\ resp' = Response("submit", 200, sub.id, EmptyHash)
    /\ sub' = SubIdle
    /\ UNCHANGED <<nextId, store, queue, delivered, revoked, artifacts, can, run, calc>>

\* except Exception: raise HTTPException(status_code=500, ...): the upload,
\* send_task or hset that was about to run raised
UpstreamError ==
    /\ sub.pc \in {"upload", "send", "init"}
    /\ resp' = Response("submit", 500, UnknownId, EmptyHash)
    /\ sub' = SubIdle
    /\ UNCHANGED <<nextId, store, queue, delivered, revoked, artifacts, can, run, calc>>

\* ------------------------------------------------------------- status API
\* mutant: the check for a missing record left out
NotFoundNever(h) == FALSE

\* if not status_data: the key holds no hash
NotFound(h) == h = EmptyHash

\* mutant: the body built without the check for an empty hash
ProjectionOfAnyHash(h) ==
    [status |-> h.status,
     progress |-> IF h.progress = Absent THEN "0" ELSE h.progress,
     result_url |-> h.result_url,
     error |-> h.error]

\* the body get_progress builds from the hash
Projection(h) ==
    IF NotFound(h)
    THEN [EmptyHash EXCEPT !.status = "unknown"]
    ELSE [status |-> h.status,
          progress |-> IF h.progress = Absent THEN "0" ELSE h.progress,
          result_url |-> h.result_url,
          error |-> h.error]

GetProgress ==
    /\ \E id \in AnyId : resp' = Response("status", 200, id, Projection(store[id]))
    /\ UNCHANGED <<nextId, store, queue, delivered, revoked, artifacts, sub, can, run, calc>>

\* mutant: failed left out of the refused statuses
UncancellableCompletedOnly == {"completed"}

\* the statuses cancel_task refuses
Uncancellable == {"completed", "failed"}

\* status_data = await redis_client.hgetall(task_id), and the two checks on it
CancelRead ==
    /\ can.pc = "idle"
    /\ \E id \in AnyId :
          IF NotFound(store[id])
          THEN resp' = Response("cancel", 404, id, EmptyHash) /\ can' = can
          ELSE IF store[id].status \in Uncancellable
          THEN resp' = Response("cancel", 400, id, EmptyHash) /\ can' = can
          ELSE resp' = Quiet /\ can' = [pc |-> "revoke", id |-> id]
    /\ UNCHANGED <<nextId, store, queue, delivered, revoked, artifacts, sub, run, calc>>

\* mutant: the cancel goes on to its write without asking for the revoke
CancelRevokeSkipped ==
    /\ can.pc = "revoke"
    /\ can' = [can EXCEPT !.pc = "write"]
    /\ resp' = Quiet
    /\ UNCHANGED <<nextId, store, queue, delivered, revoked, artifacts, sub, run, calc>>

\* celery_app.control.revoke(task_id, terminate=True). send_task was called
\* without task_id=, so Celery minted the id of the message itself: the id
\* revoked here is the id of no message, and no worker drops or terminates a
\* job because of it
CancelRevoke ==
    /\ can.pc = "revoke"
    /\ revoked' = revoked \cup {can.id}
    /\ can' = [can EXCEPT !.pc = "write"]
    /\ resp' = Quiet
    /\ UNCHANGED <<nextId, store, queue, delivered, artifacts, sub, run, calc>>

\* revoke raised (broker unreachable): the handler ends with a 500
CancelRevokeFails ==
    /\ can.pc = "revoke"
    /\ can' = CanIdle
    /\ resp' = Response("cancel", 500, can.id, EmptyHash)
    /\ UNCHANGED <<nextId, store, queue, delivered, revoked, artifacts, sub, run, calc>>

\* mutant: the cancel removes the record
CancelWriteDeletes ==
    /\ can.pc = "write"
    /\ store' = [store EXCEPT ![can.id] = EmptyHash]
    /\ can' = CanIdle
    /\ resp' = Response("cancel", 200, can.id, EmptyHash)
    /\ UNCHANGED <<nextId, queue, delivered, revoked, artifacts, sub, run, calc>>

\* await redis_client.hset(task_id, "status", "cancelled"); return {...}
CancelWrite ==
    /\ can.pc = "write"
    /\ store' = [store EXCEPT ![can.id] = HSet(@, [status |-> "cancelled"])]
    /\ can' = CanIdle
    /\ resp' = Response("cancel", 200, can.id, EmptyHash)
    /\ UNCHANGED <<nextId, queue, delivered, revoked, artifacts, sub, run, calc>>

\* ----------------------------------------------------------------- list
\* the ids with a record: the keys that pass len(key) == 36 and key.count('-') == 4
KnownIds == {t \in TaskIds : store[t] # EmptyHash}

\* redis_client.keys("*") returns the keys in an order of Redis' choosing
Enumerations(S) ==
    {q \in [1..Cardinality(S) -> S] : \A i, j \in DOMAIN q : q[i] = q[j] => i = j}

\* task_keys[a:b] for 0 <= a <= b
Slice(q, a, b) ==
    LET hi == IF b < Len(q) THEN b ELSE Len(q)
    IN  [i \in 1..(IF hi > a THEN hi - a ELSE 0) |-> q[a + i]]

\* the entry list_tasks builds from hgetall(key)
ListEntry(key, h) ==
    [task_id |-> key,
     status |-> IF h.status = Absent THEN "unknown" ELSE h.status,
     progress |-> IF h.progress = Absent THEN "0" ELSE h.progress]

\* the limit and offset parameters clients send
Limits == {1, 2}
Offsets == {0, 1}

ListTasks ==
    /\ \E limit \in Limits, offset \in Offsets, task_keys \in Enumerations(KnownIds) :
          LET paginated_keys == Slice(task_keys, offset, offset + limit)
              present == SelectSeq(paginated_keys, LAMBDA key : store[key] # EmptyHash)
          IN  resp' = [Response("list", 200, UnknownId, EmptyHash) EXCEPT
                          !.limit = limit, !.offset = offset,
                          !.total = Len(task_keys),
                          !.tasks = [i \in 1..Len(present) |->
                                        ListEntry(present[i], store[present[i]])]]
    /\ UNCHANGED <<nextId, store, queue, delivered, revoked, artifacts, sub, can, run, calc>>

\* --------------------------------------------------------------- sweep
\* cleanup_cloudinary: the urls it keeps
UrlsToPreserve ==
    {store[t].result_url : t \in {u \in TaskIds :
        /\ store[u] # EmptyHash
        /\ store[u].status \in {"queued", "in_progress"}
        /\ store[u].result_url # Absent}}

\* the folders cleanup_cloudinary lists, each with the resource type it asks for
Listed(a) ==
    \/ /\ a.folder \in {"mediaforge/originals", "mediaforge/compressed",
                        "mediaforge/converted", "mediaforge/resized"}
       /\ a.resource_type = "image"
    \/ /\ a.folder \in {"mediaforge/pdf_compressed", "mediaforge/pdf_extracted",
                        "mediaforge/pdf_merged"}
       /\ a.resource_type = "raw"

CleanupCloudinary ==
    /\ artifacts' = {a \in artifacts : ~(Listed(a) /\ a.url \notin UrlsToPreserve)}
    /\ resp' = Response("sweep", 200, UnknownId, EmptyHash)
    /\ UNCHANGED <<nextId, store, queue, delivered, revoked, sub, can, run, calc>>

\* ------------------------------------------------------------- executors
\* the broker hands the job of task t to a worker
Deliver(t) ==
    /\ queue[t] # NoJob
    /\ run[t].pc = "idle"
    /\ delivered[t] < MaxDeliveries
    /\ delivered' = [delivered EXCEPT ![t] = @ + 1]
    /\ run' = [run EXCEPT ![t] = [pc |-> "start", i |-> 0, outcome |-> "none"]]
    /\ resp' = Quiet
    /\ UNCHANGED <<nextId, store, queue, revoked, artifacts, sub, can, calc>>

\* redis_client.hset(task_id, mapping={"status": "processing", "progress": P0})
ExecStart(t) ==
    /\ run[t].pc = "start"
    /\ store' = [store EXCEPT ![t] =
          HSet(@, [status |-> "processing", progress |-> P0(queue[t].kind)])]
    /\ run' = [run EXCEPT ![t].pc = "work"]
    /\ resp' = Quiet
    /\ UNCHANGED <<nextId, queue, delivered, revoked, artifacts, sub, can, calc>>

\* requests.get(url); response.raise_for_status(): the source must still be stored
FetchOk(t, k) ==
    IF k = 0 THEN TRUE ELSE \E a \in artifacts : a.url = queue[t].urls[k]

\* extract: if start_page < 1 or end_page > total_pages or start_page > end_page
\* mutant: the test against the page count left out
PageRangeNoUpperTest(start_page, end_page, total_pages) ==
    start_page < 1 \/ start_page > end_page

PageRangeInvalid(start_page, end_page, total_pages) ==
    start_page < 1 \/ end_page > total_pages \/ start_page > end_page

\* str.upper() on the formats that pass the endpoint
Upper(s) ==
    CASE s = "jpg" -> "JPG" [] s = "jpeg" -> "JPEG" [] s = "png" -> "PNG"
      [] s = "webp" -> "WEBP" [] s = "bmp" -> "BMP" [] s = "tiff" -> "TIFF"
      [] s = "gif" -> "GIF" [] OTHER -> s

\* image.save(buffer, format=...): the names under which Pillow registers the
\* writers of these formats; any other name raises KeyError
PilSaveFormats == {"JPEG", "PNG", "WEBP", "BMP", "TIFF", "GIF"}

\* the modes of a source image
ImageModes == {"RGB", "RGBA", "P", "L", "LA"}

\* convert: the mode of the image that is handed to image.save
ConvertMode(target_format, mode) ==
    IF Upper(target_format) = "JPEG" /\ mode \in {"RGBA", "P"} THEN "RGB"
    ELSE IF Upper(target_format) = "PNG" /\ mode # "RGBA" THEN "RGBA"
    ELSE mode

\* the checks that raise before checkpoint i + 1 pass for the file at hand:
\* the page range of an extract is checked before its second checkpoint
\* against the page count of the PDF that was uploaded; the save of a convert
\* comes before its third checkpoint
ChecksPass(job, i) ==
    /\ (job.kind = "pdf.extract" /\ i = 1) =>
          \E total_pages \in 1..MaxPages :
              ~PageRangeInvalid(job.start_page, job.end_page, total_pages)
    /\ (job.kind = "image.convert" /\ i = 2) =>
          Upper(job.target_format) \in PilSaveFormats

\* the work up to the next redis_client.hset(task_id, "progress", ...)
ExecCheckpoint(t) ==
    LET job == queue[t]
        cps == Checkpoints(job.kind, job.n)
        i == run[t].i
    IN  /\ run[t].pc = "work"
        /\ i < Len(cps)
        /\ FetchOk(t, FetchBefore(job.kind, job.n, i))
        /\ ChecksPass(job, i)
        /\ store' = [store EXCEPT ![t] = HSet(@, [progress |-> cps[i + 1]])]
        /\ run' = [run EXCEPT ![t].i = i + 1]
        /\ resp' = Quiet
        /\ UNCHANGED <<nextId, queue, delivered, revoked, artifacts, sub, can, calc>>

\* requests.get(file_url, timeout=30) in compress; requests.get(url) without
\* a timeout in the five other executors (0: none)
FetchTimeout(kind) == IF kind = "image.compress" THEN 30 ELSE 0

\* the source the executor is about to download never responds
ExecFetchHangs(t) ==
    LET job == queue[t]
    IN  /\ run[t].pc = "work"
        /\ run[t].i < Len(Checkpoints(job.kind, job.n))
        /\ FetchBefore(job.kind, job.n, run[t].i) # 0
        /\ run' = [run EXCEPT ![t].pc = "hung"]
        /\ resp' = Quiet
        /\ UNCHANGED <<nextId, store, queue, delivered, revoked, artifacts, sub, can, calc>>

\* the timeout of the download expires: requests raises Timeout, and the
\* except branch writes the failed record
ExecFetchTimeout(t) ==
    /\ run[t].pc = "hung"
    /\ FetchTimeout(queue[t].kind) > 0
    /\ store' = [store EXCEPT ![t] = HSet(@, [status |-> "failed", error |-> "str(e)"])]
    /\ run' = [run EXCEPT ![t] = [RunIdle EXCEPT !.outcome = "FAILURE"]]
    /\ resp' = Quiet
    /\ UNCHANGED <<nextId, queue, delivered, revoked, artifacts, sub, can, calc>>

\* cloudinary.uploader.upload(buffer.getvalue(), folder=...)
ExecUpload(t) ==
    LET job == queue[t]
    IN  /\ run[t].pc = "work"
        /\ run[t].i = Len(Checkpoints(job.kind, job.n))
        /\ artifacts' = artifacts \cup
              {Artifact(ResultUrl(job.kind, t, delivered[t]), Folder(job.kind),
                        IF job.kind \in PdfKinds THEN "raw" ELSE "image")}
        /\ run' = [run EXCEPT ![t].pc = "uploaded"]
        /\ resp' = Quiet
        /\ UNCHANGED <<nextId, store, queue, delivered, revoked, sub, can, calc>>

\* the mapping of the last hset of a run that succeeded
CompletedMapping(url) == [status |-> "completed", progress |-> "100", result_url |-> url]

\* mutant: the result_url of an earlier run is kept
ExecCompleteKeepFirst(t) ==
    /\ run[t].pc = "uploaded"
    /\ store' = [store EXCEPT ![t] =
          IF @.result_url = Absent
          THEN HSet(@, CompletedMapping(ResultUrl(queue[t].kind, t, delivered[t])))
          ELSE HSet(@, [status |-> "completed", progress |-> "100"])]
    /\ run' = [run EXCEPT ![t] = [RunIdle EXCEPT !.outcome = "SUCCESS"]]
    /\ resp' = Quiet
    /\ UNCHANGED <<nextId, queue, delivered, revoked, artifacts, sub, can, calc>>

\* redis_client.hset(task_id, mapping={"status": "completed", "progress": "100",
\* "result_url": ...}); return result_url
ExecComplete(t) ==
    /\ run[t].pc = "uploaded"
    /\ store' = [store EXCEPT ![t] =
          HSet(@, CompletedMapping(ResultUrl(queue[t].kind, t, delivered[t])))]
    /\ run' = [run EXCEPT ![t] = [RunIdle EXCEPT !.outcome = "SUCCESS"]]
    /\ resp' = Quiet
    /\ UNCHANGED <<nextId, queue, delivered, revoked, artifacts, sub, can, calc>>

\* the mapping of the except branch; str(e) of the exception raised
FailedMapping == [status |-> "failed", error |-> "str(e)"]

\* the step that was about to run raised (the first hset, a download, the
\* page check, the transform, the upload, the last hset):
\* except Exception as e: redis_client.hset(...); raise e
ExecRaise(t) ==
    /\ run[t].pc \in {"start", "work", "uploaded"}
    /\ store' = [store EXCEPT ![t] = HSet(@, FailedMapping)]
    /\ run' = [run EXCEPT ![t] = [RunIdle EXCEPT !.outcome = "FAILURE"]]
    /\ resp' = Quiet
    /\ UNCHANGED <<nextId, queue, delivered, revoked, artifacts, sub, can, calc>>

\* a step raised and Redis is unreachable when the except branch runs (as it
\* is when the step that raised was itself an hset): the hset of the except
\* branch raises too, and that exception leaves the task
ExecRaiseStoreDown(t) ==
    /\ run[t].pc \in {"start", "work", "uploaded"}
    /\ run' = [run EXCEPT ![t] = [RunIdle EXCEPT !.outcome = "FAILURE"]]
    /\ resp' = Quiet
    /\ UNCHANGED <<nextId, store, queue, delivered, revoked, artifacts, sub, can, calc>>

\* the worker process dies and writes nothing more
WorkerCrash(t) ==
    /\ run[t].pc # "idle"
    /\ run' = [run EXCEPT ![t] = RunIdle]
    /\ resp' = Quiet
    /\ UNCHANGED <<nextId, store, queue, delivered, revoked, artifacts, sub, can, calc>>

Next ==
    \/ Receive
    \/ Reject
    \/ EnterCreateTask
    \/ UploadOriginal
    \/ SendTask
    \/ InitRecord
    \/ ReturnTaskId
    \/ UpstreamError
    \/ GetProgress
    \/ CancelRead
    \/ CancelRevoke
    \/ CancelRevokeFails
    \/ CancelWrite
    \/ ListTasks
    \/ CleanupCloudinary
    \/ \E t \in TaskIds : Deliver(t)
    \/ \E t \in TaskIds : ExecStart(t)
    \/ \E t \in TaskIds : ExecCheckpoint(t)
    \/ \E t \in TaskIds : ExecFetchHangs(t)
    \/ \E t \in TaskIds : ExecFetchTimeout(t)
    \/ \E t \in TaskIds : ExecUpload(t)
    \/ \E t \in TaskIds : ExecComplete(t)
    \/ \E t \in TaskIds : ExecRaise(t)
    \/ \E t \in TaskIds : ExecRaiseStoreDown(t)
    \/ \E t \in TaskIds : WorkerCrash(t)

Spec == Init /\ [][Next]_vars

\* ------------------------------------------------------------ two tasks
\* SpecTwo: two submissions, their jobs delivered once each, listings and
\* sweeps between any two steps; the requests are one of each outcome
TwoRequests ==
    {Request("image.convert", <<"image/png">>, 0, 0, 0, "PNG", "", 0, 0),
     Request("image.convert", <<"image/png">>, 0, 0, 0, "svg", "", 0, 0),
     Request("pdf.merge", <<"application/pdf", "application/pdf">>, 0, 0, 0, "", "", 0, 0)}

ReceiveTwo == ReceiveUpTo(MaxTasks + 1) /\ sub'.req \in TwoRequests

DeliverOnce(t) == Deliver(t) /\ delivered[t] = 0

NextTwo ==
    \/ ReceiveTwo
    \/ Reject
    \/ EnterCreateTask
    \/ UploadOriginal
    \/ SendTask
    \/ InitRecord
    \/ ReturnTaskId
    \/ ListTasks
    \/ CleanupCloudinary
    \/ \E t \in TaskIds : DeliverOnce(t)
    \/ \E t \in TaskIds : ExecStart(t)
    \/ \E t \in TaskIds : ExecCheckpoint(t)
    \/ \E t \in TaskIds : ExecUpload(t)
    \/ \E t \in TaskIds : ExecComplete(t)
    \/ \E t \in TaskIds : ExecRaise(t)

SpecTwo == Init /\ [][NextTwo]_vars

\* ------------------------------------------------------------- liveness
\* SpecLive: one submission and one delivery of its job, with cancels, under
\* fair scheduling: a handler that has started goes on to its next step, a
\* job that was sent is delivered, a worker that holds a job goes on; a
\* client is not obliged to send a request, and a download that the source
\* never answers makes no step unless its timeout does
LiveRequests ==
    {Request("image.compress", <<"image/png">>, 100, 0, 0, "", "", 0, 0),
     Request("image.compress", <<"image/png">>, 0, 0, 0, "", "", 0, 0),
     Request("image.convert", <<"image/png">>, 0, 0, 0, "PNG", "", 0, 0)}

ReceiveLive == Receive /\ sub'.req \in LiveRequests

NextLive ==
    \/ ReceiveLive
    \/ Reject
    \/ EnterCreateTask
    \/ UploadOriginal
    \/ SendTask
    \/ InitRecord
    \/ ReturnTaskId
    \/ CancelRead
    \/ CancelRevoke
    \/ CancelWrite
    \/ \E t \in TaskIds : DeliverOnce(t)
    \/ \E t \in TaskIds : ExecStart(t)
    \/ \E t \in TaskIds : ExecCheckpoint(t)
    \/ \E t \in TaskIds : ExecFetchHangs(t)
    \/ \E t \in TaskIds : ExecFetchTimeout(t)
    \/ \E t \in TaskIds : ExecUpload(t)
    \/ \E t \in TaskIds : ExecComplete(t)
    \/ \E t \in TaskIds : ExecRaise(t)

Fairness ==
    /\ WF_vars(Reject)
    /\ WF_vars(EnterCreateTask)
    /\ WF_vars(UploadOriginal)
    /\ WF_vars(SendTask)
    /\ WF_vars(InitRecord)
    /\ WF_vars(ReturnTaskId)
    /\ WF_vars(CancelRevoke)
    /\ WF_vars(CancelWrite)
    /\ \A t \in TaskIds :
          /\ WF_vars(DeliverOnce(t))
          /\ WF_vars(ExecStart(t))
          /\ WF_vars(ExecCheckpoint(t) \/ ExecFetchHangs(t) \/ ExecUpload(t)
                        \/ ExecComplete(t) \/ ExecRaise(t))
          /\ WF_vars(ExecFetchTimeout(t))

SpecLive == Init /\ [][NextLive]_vars /\ Fairness

\* ----------------------------------------------------------- computations
\* The computations of the executors on their own: a behaviour of SpecCalc
\* starts with one input in calc and applies the executor's computation to it.
Pending == [status |-> "pending"]

\* extract: the range check, the loop over range(start_idx, end_idx + 1) with
\* its insert_pdf(from_page = to_page = page_num) calls (0-based), and the
\* extracted_pages field of the completed record
ExtractOutcome(start_page, end_page, total_pages) ==
    IF PageRangeInvalid(start_page, end_page, total_pages)
    THEN [status |-> "failed", pages |-> <<>>, extracted_pages |-> Absent]
    ELSE LET start_idx == start_page - 1
             end_idx == end_page - 1
         IN  [status |-> "completed",
              pages |-> [j \in 1..(end_idx + 1 - start_idx) |-> start_idx + j - 1],
              extracted_pages |-> ToString(start_page) \o "-" \o ToString(end_page)]

\* compress: the while loop; sizes[j] is the size in KB of the j-th buffer
\* that was compressed, retries the re-compressions done so far
RECURSIVE SizeLoop(_, _, _, _, _)
SizeLoop(quality, attempts, target_size_kb, sizes, retries) ==
    IF sizes[retries + 1] > target_size_kb /\ quality > 30 /\ attempts > 0
    THEN SizeLoop(quality - 15, attempts - 1, target_size_kb, sizes, retries + 1)
    ELSE [quality |-> quality, retries |-> retries]

\* mutant: one attempt more
SizeTargetFourAttempts(quality, target_size_kb, sizes) ==
    IF target_size_kb # 0 /\ sizes[1] > target_size_kb /\ quality > 30
    THEN SizeLoop(quality, 4, target_size_kb, sizes, 0)
    ELSE [quality |-> quality, retries |-> 0]

\* compress: the size check after the first compression; target_size_kb = 0
\* stands for None (and for 0, which is falsy too); the quality of the result
\* is the one the completed record stores under "quality"
SizeTarget(quality, target_size_kb, sizes) ==
    IF target_size_kb # 0 /\ sizes[1] > target_size_kb /\ quality > 30
    THEN SizeLoop(quality, 3, target_size_kb, sizes, 0)
    ELSE [quality |-> quality, retries |-> 0]

\* convert: the mode handed to image.save and whether the save has a writer
ConvertOutcome(target_format, mode) ==
    [mode |-> ConvertMode(target_format, mode),
     saved |-> Upper(target_format) \in PilSaveFormats]

\* sizes of the buffers of one compress run: below and above the target
SizesKb == [1..5 -> {1, 3}]

CalcInputs ==
    {[fn |-> "extract", start_page |-> a, end_page |-> b, total_pages |-> c,
      done |-> FALSE, out |-> Pending] :
        a \in (0 - 1)..(MaxPages + 1), b \in (0 - 1)..(MaxPages + 1),
        c \in 1..MaxPages}
    \cup {[fn |-> "merge", n |-> n, i |-> i, done |-> FALSE, out |-> Pending] :
        n \in 2..MaxSources, i \in 1..MaxSources}
    \cup {[fn |-> "quality", quality |-> q, target_size_kb |-> g, sizes |-> z,
           done |-> FALSE, out |-> Pending] :
        q \in 1..100, g \in {0, 2}, z \in SizesKb}
    \cup {[fn |-> "convert", target_format |-> f, mode |-> m,
           done |-> FALSE, out |-> Pending] :
        f \in valid_formats, m \in ImageModes}

InitCalc == InitSystem /\ calc \in {c \in CalcInputs : c.fn = "merge" => c.i <= c.n}

Idle == UNCHANGED <<nextId, store, queue, delivered, revoked, artifacts, sub,
                    can, run, resp>>

CalcExtract ==
    /\ calc.fn = "extract" /\ ~calc.done
    /\ calc' = [calc EXCEPT !.done = TRUE,
                 !.out = ExtractOutcome(calc.start_page, calc.end_page,
                                        calc.total_pages)]
    /\ Idle

\* the i-th pass through the loop of merge: the sources inserted so far, as
\* indices into pdf_urls, and the progress written at its end
CalcMerge ==
    /\ calc.fn = "merge" /\ ~calc.done
    /\ calc' = [calc EXCEPT !.done = TRUE,
                 !.out = [inserted |-> [j \in 1..calc.i |-> j],
                          progress |-> MergeProgress(calc.i, calc.n)]]
    /\ Idle

CalcQuality ==
    /\ calc.fn = "quality" /\ ~calc.done
    /\ calc' = [calc EXCEPT !.done = TRUE,
                 !.out = SizeTarget(calc.quality, calc.target_size_kb,
                                    calc.sizes)]
    /\ Idle

CalcConvert ==
    /\ calc.fn = "convert" /\ ~calc.done
    /\ calc' = [calc EXCEPT !.done = TRUE,
                 !.out = ConvertOutcome(calc.target_format, calc.mode)]
    /\ Idle

NextCalc == CalcExtract \/ CalcMerge \/ CalcQuality \/ CalcConvert

SpecCalc == InitCalc /\ [][NextCalc]_vars

\* ================================================================ claims
Terminal == {"completed", "failed", "cancelled"}

\* C1 (as stated): whenever submit is about to return a task id, the record
\* under that id has status queued and progress 0.
C1_QueuedAtReturn ==
    sub.pc = "return" => store[sub.id].status = "queued" /\ store[sub.id].progress = "0"

\* C1 (amended): the record write of submit, for every job type, leaves the
\* record with status queued and progress 0, and a getStatus served in that
\* state reports queued, 0.
C1_QueuedAtInit ==
    [][(sub.pc = "init" /\ sub'.pc = "return") =>
          /\ store'[sub.id].status = "queued"
          /\ store'[sub.id].progress = "0"
          /\ Projection(store'[sub.id]).status = "queued"
          /\ Projection(store'[sub.id]).progress = "0"]_vars

C1_Witness ==
    /\ sub.pc = "return"
    /\ sub.kind = "pdf.merge"
    /\ store[sub.id].status = "queued"
    /\ store[sub.id].progress = "0"

\* the constraints of the endpoints, as the specification lists them (the
\* target format is compared without regard to case)
SpecViolation(r) ==
    \/ r.kind \in ImageKinds /\ r.cts[1] # "image/png"
    \/ r.kind \in {"pdf.compress", "pdf.extract"} /\ r.cts[1] # "application/pdf"
    \/ r.kind = "image.compress" /\ r.quality \notin 1..100
    \/ r.kind = "image.resize" /\ (r.width <= 0 \/ r.height <= 0)
    \/ r.kind = "image.convert"
          /\ Lower(r.target_format) \notin {"jpg", "jpeg", "png", "webp", "bmp", "tiff", "gif"}
    \/ r.kind = "pdf.compress" /\ r.compression_level \notin {"low", "medium", "high"}
    \/ r.kind = "pdf.merge" /\ Len(r.cts) < 2
    \/ r.kind = "pdf.merge" /\ \E i \in 1..Len(r.cts) : r.cts[i] # "application/pdf"

C3_NoRecordWithoutJob ==
    /\ [](\A t \in TaskIds : store[t] # EmptyHash => queue[t] # NoJob)
    /\ [][(sub.pc \in {"upload", "send"} /\ sub'.pc = "idle") =>
             /\ resp'.op = "submit" /\ resp'.code = 500
             /\ store'[sub.id] = EmptyHash]_vars

C3_Witness ==
    /\ resp = Response("submit", 500, UnknownId, EmptyHash)
    /\ nextId = 2
    /\ artifacts # {}
    /\ queue[1] = NoJob
    /\ store[1] = EmptyHash

\* C4: a record whose status is completed has progress 100, a result_url and
\* no error.
C4_CompletedRecord ==
    \A t \in TaskIds : store[t].status = "completed" =>
        /\ store[t].progress = "100"
        /\ store[t].result_url # Absent
        /\ store[t].error = Absent

\* C5: a record whose status is failed has an error and no result_url.
C5_FailedRecord ==
    \A t \in TaskIds : store[t].status = "failed" =>
        /\ store[t].error \notin {Absent, ""}
        /\ store[t].result_url = Absent

\* C6: no step changes a record whose status is completed, failed or cancelled.
C6_TerminalFrozen ==
    [][\A t \in TaskIds : store[t].status \in Terminal => store'[t] = store[t]]_vars

\* C7: a cancel that reads status completed or failed answers 400, issues no
\* revoke and changes no record; only a cancel that read another status goes
\* on, a cancel that reads queued or processing is not refused, and the write
\* of a cancel sets status cancelled and answers 200.
C7_CancelByStatus ==
    [][/\ (can.pc = "idle" /\ resp'.op = "cancel"
              /\ store[resp'.id].status \in {"completed", "failed"}) =>
            (resp'.code = 400 /\ can' = CanIdle /\ UNCHANGED <<store, revoked>>)
       /\ (can.pc = "idle" /\ can'.pc = "revoke") =>
            store[can'.id].status \notin {"completed", "failed"}
       /\ (can.pc = "idle" /\ resp'.op = "cancel") =>
            store[resp'.id].status \notin {"queued", "processing"}
       /\ (can.pc = "write" /\ can'.pc = "idle") =>
            (store'[can.id].status = "cancelled" /\ resp' = Response("cancel", 200, can.id, EmptyHash))
      ]_vars

C7_Witness ==
    /\ resp.op = "cancel" /\ resp.code = 400
    /\ store[resp.id].status \in {"completed", "failed"}

\* C8: a cancel never passes the status check on a record whose status is
\* cancelled (it is refused and issues no revoke).
C8_SecondCancelRefused ==
    [][(can.pc = "idle" /\ can'.pc = "revoke") => store[can'.id].status # "cancelled"]_vars

\* C9: a cancel for an id without a record answers 404, issues no revoke and
\* creates no record; a cancel goes on to revoke only for an id with a record.
C9_CancelNotFound ==
    [][/\ (can.pc = "idle" /\ resp'.op = "cancel" /\ store[resp'.id] = EmptyHash) =>
            (resp'.code = 404 /\ can' = CanIdle /\ UNCHANGED <<store, revoked, queue>>)
       /\ (can.pc = "idle" /\ can'.pc = "revoke") => store[can'.id] # EmptyHash
       /\ (can.pc = "write" /\ can'.pc = "idle") => store[can.id] # EmptyHash
      ]_vars

C9_Witness ==
    /\ resp = Response("cancel", 404, 1, EmptyHash)
    /\ nextId = 2
    /\ store[1] = EmptyHash
    /\ revoked = {}

\* C10: getStatus answers 200; for an id without a record the body has status
\* unknown; the step changes neither the store, nor the queue, nor the
\* artifacts.
C10_GetStatusUnknown ==
    [][resp'.op = "status" =>
          /\ resp'.code = 200
          /\ (store[resp'.id] = EmptyHash => resp'.body.status = "unknown")
          /\ (store[resp'.id] # EmptyHash => resp'.body.status = store[resp'.id].status)
          /\ UNCHANGED <<store, queue, delivered, revoked, artifacts>>]_vars

C10_Witness ==
    /\ resp.op = "status" /\ resp.id = 1
    /\ resp.body.status = "unknown"
    /\ queue[1] # NoJob
    /\ store[1] = EmptyHash

\* the progress of a record as a number
Percent(p) == CHOOSE n \in 0..100 : ToString(n) = p

\* task t was delivered once, no step of its run raised and no cancel was
\* ever accepted
CleanRun(t) ==
    /\ delivered[t] = 1
    /\ store[t].error = Absent
    /\ run[t].outcome # "FAILURE"
    /\ revoked = {}
    /\ can = CanIdle

\* C11: in a run without failure and without cancel, a record whose status is
\* processing or completed never has status queued in the next state, whatever
\* the order of the submitter's record write and the worker's steps.
C11_NeverQueuedAgain ==
    [][\A t \in TaskIds :
          (CleanRun(t) /\ store[t].status \in {"processing", "completed"}) =>
              store'[t].status # "queued"]_vars

\* C12: the record of an extract task whose start_page is greater than its
\* end_page never has status processing.
C12_BadRangeNeverProcessing ==
    \A t \in TaskIds :
        (queue[t].kind = "pdf.extract" /\ queue[t].start_page > queue[t].end_page) =>
            store[t].status # "processing"

\* the source artifacts of task t that are stored
SourcesOf(t) == {a \in artifacts : \E k \in 1..Len(queue[t].urls) : a.url = queue[t].urls[k]}

\* C13: a sweep deletes no source artifact of a task whose record has status
\* queued or processing when the sweep runs.
C13_SweepKeepsActiveSources ==
    [][resp'.op = "sweep" =>
          \A t \in TaskIds : store[t].status \in {"queued", "processing"} =>
              SourcesOf(t) \subseteq artifacts']_vars

\* C14: a step between two states in which the record of a task has status
\* processing does not lower its progress.
C14_ProgressMonotone ==
    [][\A t \in TaskIds :
          (store[t].status = "processing" /\ store'[t].status = "processing") =>
              Percent(store'[t].progress) >= Percent(store[t].progress)]_vars

\* C15: no record has both a result_url and an error, and a record whose
\* status is queued, processing or cancelled has neither.
C15_ResultErrorExclusive ==
    \A t \in TaskIds :
        /\ ~(store[t].result_url # Absent /\ store[t].error # Absent)
        /\ store[t].status \in {"queued", "processing", "cancelled"} =>
              (store[t].result_url = Absent /\ store[t].error = Absent)

\* the step ends the run of task t's job
EndsRun(t) == run[t].pc # "idle" /\ run'[t].pc = "idle"

\* C16: the last write of a run decides the status whatever the number of the
\* delivery and whatever an earlier run left in the record: a run that returns
\* leaves completed, progress 100 and the result_url of its own upload, a run
\* whose except branch writes leaves failed; result_url is one field and only
\* the completing write of a run changes it.
C16_RedeliveryConverges ==
    [][\A t \in TaskIds :
          /\ (EndsRun(t) /\ run'[t].outcome = "SUCCESS") =>
                /\ store'[t].status = "completed"
                /\ store'[t].progress = "100"
                /\ store'[t].result_url = ResultUrl(queue[t].kind, t, delivered[t])
          /\ (EndsRun(t) /\ run'[t].outcome = "FAILURE" /\ store'[t] # store[t]) =>
                store'[t].status = "failed"
          /\ store'[t].result_url # store[t].result_url =>
                (EndsRun(t) /\ run'[t].outcome = "SUCCESS")]_vars

\* the second run completed after the first one was lost behind its upload
C16_Witness ==
    \E t \in TaskIds :
        /\ delivered[t] = 2
        /\ run[t] = [RunIdle EXCEPT !.outcome = "SUCCESS"]
        /\ store[t].status = "completed"
        /\ store[t].error = Absent
        /\ store[t].result_url = ResultUrl(queue[t].kind, t, 2)
        /\ \E a \in artifacts : a.url = ResultUrl(queue[t].kind, t, 1)

\* C17: when the run of a job ends with an exception raised to the broker,
\* the record of its task has status failed and an error.
C17_FailureRecorded ==
    [][\A t \in TaskIds :
          (EndsRun(t) /\ run'[t].outcome = "FAILURE") =>
              (store'[t].status = "failed" /\ store'[t].error # Absent)]_vars

\* the task ids of the entries of a listing
ListedIds(tasks) == {tasks[i].task_id : i \in 1..Len(tasks)}

\* C18: a record that exists still exists after every step, whichever handler
\* or executor takes it, and a listing never shows an id twice.
C18_RecordPersists ==
    [][/\ \A t \in AnyId : store[t] # EmptyHash => store'[t] # EmptyHash
       /\ resp'.op = "list" => Cardinality(ListedIds(resp'.tasks)) = Len(resp'.tasks)]_vars

\* the record outlived a failed run, a second delivery and a cancel
C18_Witness ==
    /\ resp.op = "cancel" /\ resp.code = 200
    /\ store[resp.id].status = "cancelled"
    /\ store[resp.id].error # Absent
    /\ delivered[resp.id] = MaxDeliveries

\* C19: the id a submit mints has no job and no record yet, while every id a
\* submit returned has a job, so the id differs from all returned before; the
\* submit returns that id; the one step that enqueues puts one job under it,
\* carrying the urls of all its uploaded sources in upload order, and changes
\* no other job; no step of the submit changes the record of another id.
C19_FreshIdOneJob ==
    /\ [](resp.op = "submit" /\ resp.code = 200 => queue[resp.id] # NoJob)
    /\ [][/\ (sub.pc = "recv" /\ sub'.pc = "upload") =>
               /\ sub'.id \in TaskIds
               /\ queue[sub'.id] = NoJob
               /\ store[sub'.id] = EmptyHash
          /\ (resp'.op = "submit" /\ resp'.code = 200) => resp'.id = sub.id
          /\ queue' # queue =>
               /\ sub.pc = "send"
               /\ queue[sub.id] = NoJob
               /\ queue'[sub.id].kind = sub.kind
               /\ queue'[sub.id].urls = [k \in 1..sub.n |-> OriginalUrl(sub.id, k)]
               /\ \A t \in TaskIds \ {sub.id} : queue'[t] = queue[t]
          /\ sub' # sub =>
               \A t \in AnyId \ {sub.id} : store'[t] = store[t]]_vars

\* the second submit, a merge, returned its id while the first task has its
\* job and its record
C19_Witness ==
    /\ resp = Response("submit", 200, 2, EmptyHash)
    /\ queue[2].kind = "pdf.merge"
    /\ Len(queue[2].urls) = 2
    /\ store[2].status = "queued"
    /\ queue[1] # NoJob
    /\ store[1].status = "completed"

\* C20: two listings in a row over the same store, with the same limit, at
\* offsets 0 and limit, of a store with at most 2 * limit records, together
\* show every id with a record, and none twice.
C20_PagesCoverOnce ==
    [][(/\ resp.op = "list" /\ resp'.op = "list"
        /\ resp'.limit = resp.limit
        /\ resp.offset = 0 /\ resp'.offset = resp.limit
        /\ resp.total <= 2 * resp.limit) =>
          /\ ListedIds(resp.tasks) \cup ListedIds(resp'.tasks) = KnownIds
          /\ ListedIds(resp.tasks) \cap ListedIds(resp'.tasks) = {}]_vars

\* C21: a record with status processing has a progress above 0, and the step
\* that marks a job as picked up writes status processing together with
\* progress 5 (image compress) or 10 (the other job types).
C21_ProcessingPositive ==
    /\ [](\A t \in TaskIds : store[t].status = "processing" =>
              (store[t].progress # Absent /\ Percent(store[t].progress) > 0))
    /\ [][\A t \in TaskIds : (run[t].pc = "start" /\ run'[t].pc = "work") =>
              /\ store'[t].status = "processing"
              /\ store'[t].progress =
                    (IF queue[t].kind = "image.compress" THEN "5" ELSE "10")]_vars

\* a compress job was picked up over a record that a cancel had marked
C21_Witness ==
    \E t \in TaskIds :
        /\ queue[t].kind = "image.compress"
        /\ run[t].pc = "work" /\ run[t].i = 0
        /\ store[t].status = "processing"
        /\ store[t].progress = "5"
        /\ t \in revoked

\* C22: whenever the download of a run hangs, the record of its task
\* eventually has status failed.
C22_HungFetchFails ==
    \A t \in TaskIds : (run[t].pc = "hung") ~> (store[t].status = "failed")

\* C23: the write of a cancel comes after the revoke for the same id was
\* issued; a step that makes a status cancelled is such a write, for an id
\* that was revoked; a cancel whose revoke raised answers 500 and leaves
\* every record as it was.
C23_RevokeBeforeCancelled ==
    /\ [](can.pc = "write" => can.id \in revoked)
    /\ [][/\ \A t \in TaskIds :
                (store'[t].status = "cancelled" /\ store[t].status # "cancelled") =>
                    (can.pc = "write" /\ can.id = t /\ t \in revoked)
          /\ (can.pc = "revoke" /\ can'.pc = "idle") =>
                (resp'.code = 500 /\ UNCHANGED <<store, revoked>>)]_vars

\* a cancel answered 200 for a task whose run goes on
C23_Witness ==
    /\ resp = Response("cancel", 200, 1, EmptyHash)
    /\ store[1].status = "cancelled"
    /\ 1 \in revoked
    /\ run[1].pc = "work"

\* a cancel failed in its revoke
C23_WitnessRevokeRaised ==
    /\ resp = Response("cancel", 500, 1, EmptyHash)
    /\ store[1].status = "processing"
    /\ revoked = {}

\* C24: an extract job fails exactly when start_page < 1, end_page is above
\* the page count or start_page > end_page; otherwise it extracts the pages
\* start_page..end_page (1-based, both ends included) in increasing order,
\* end_page - start_page + 1 of them, and records extracted_pages as
\* "start-end".
C24_ExtractRange ==
    (calc.fn = "extract" /\ calc.done) =>
        LET a == calc.start_page
            b == calc.end_page
            out == calc.out
        IN  /\ out.status = "failed" <=> (a < 1 \/ b > calc.total_pages \/ a > b)
            /\ out.status # "failed" =>
                  /\ out.status = "completed"
                  /\ Len(out.pages) = b - a + 1
                  /\ \A j \in 1..Len(out.pages) : out.pages[j] + 1 = a + j - 1
                  /\ out.extracted_pages = ToString(a) \o "-" \o ToString(b)

\* C24 witness: pages 2..3 of a three-page PDF were extracted.
C24_Witness ==
    /\ calc.fn = "extract" /\ calc.done
    /\ calc.start_page = 2 /\ calc.end_page = 3 /\ calc.total_pages = 3
    /\ calc.out.status = "completed"
    /\ calc.out.pages = <<1, 2>>
    /\ calc.out.extracted_pages = "2-3"

\* C24 witness of the failing side: end_page one above the page count.
C24_WitnessAbove ==
    /\ calc.fn = "extract" /\ calc.done
    /\ calc.start_page = 1 /\ calc.end_page = calc.total_pages + 1
    /\ calc.out.status = "failed"

\* C25: the progress a merge of n sources stores after its i-th source is
\* the integer part of 10 + i * 70 / n: it is at least 10, at most 80 (so
\* never above the later checkpoints 85, 90 and 100), not below the value
\* stored after the source before, and exactly 80 after the last source; the
\* sources are inserted in the order of the job's list.
C25_MergeProgressExact ==
    (calc.fn = "merge" /\ calc.done) =>
        LET i == calc.i
            n == calc.n
            p == calc.out.progress
        IN  /\ p = ToString((10 * n + i * 70) \div n)
            /\ Percent(p) >= 10 /\ Percent(p) <= 80
            /\ i > 1 => Percent(MergeProgress(i - 1, n)) <= Percent(p)
            /\ i = n => p = "80"
            /\ calc.out.inserted = [j \in 1..i |-> j]

\* C25, the part that holds whatever the rounding: bounds, order and
\* monotonicity of the stored progress.
C25_MergeProgressBounds ==
    (calc.fn = "merge" /\ calc.done) =>
        LET p == calc.out.progress
        IN  /\ Percent(p) >= 10 /\ Percent(p) <= 80
            /\ calc.i > 1 => Percent(MergeProgress(calc.i - 1, calc.n)) <= Percent(p)
            /\ calc.out.inserted = [j \in 1..calc.i |-> j]

\* C25: a merge of 275 sources has stored 79 after its last source.
C25_LastBelowEighty ==
    /\ calc.fn = "merge" /\ calc.done
    /\ calc.n = 275 /\ calc.i = 275
    /\ calc.out.progress = "79"

\* C26: for every quality 1..100 at its start and every target size, the
\* size loop of compress ends after at most 3 re-compressions, each of which
\* lowers the quality by exactly 15 and is made only while the size is above
\* the target and the quality above 30; it stops short of 3 only when the
\* size is met or the quality is at most 30; the quality that is recorded is
\* at least 16 after a retry and the initial quality when there was none.
C26_SizeLoopBounded ==
    (calc.fn = "quality" /\ calc.done) =>
        LET q == calc.quality
            g == calc.target_size_kb
            z == calc.sizes
            out == calc.out
        IN  /\ out.retries \in 0..3
            /\ out.quality = q - 15 * out.retries
            /\ \A j \in 1..out.retries :
                  g # 0 /\ z[j] > g /\ q - 15 * (j - 1) > 30
            /\ out.retries < 3 =>
                  g = 0 \/ z[out.retries + 1] <= g \/ out.quality <= 30
            /\ out.retries > 0 => out.quality >= 16
            /\ out.retries = 0 => out.quality = q

\* C26 witness: every buffer is above the target, the loop gave up after
\* its third re-compression.
C26_Witness ==
    /\ calc.fn = "quality" /\ calc.done
    /\ calc.quality = 100 /\ calc.target_size_kb = 2
    /\ \A j \in 1..5 : calc.sizes[j] = 3
    /\ calc.out = [quality |-> 55, retries |-> 3]

\* C26 witness of the floor: one retry from 31 ends at 16.
C26_WitnessFloor ==
    /\ calc.fn = "quality" /\ calc.done
    /\ calc.quality = 31 /\ calc.target_size_kb = 2
    /\ calc.sizes[1] = 3 /\ calc.sizes[2] = 3
    /\ calc.out = [quality |-> 16, retries |-> 1]

\* C27: for every accepted target format and every source mode, convert
\* hands a mode without alpha and without palette to the encoder when the
\* target cannot carry alpha and the source has alpha or a palette, and a
\* mode with alpha when the target can carry alpha and the source has none.
\* jpg and jpeg cannot carry alpha, png, webp and tiff can; bmp and gif are
\* left out of both sides, their transparency depends on the variant written.
C27_AlphaHandled ==
    (calc.fn = "convert" /\ calc.done) =>
        LET HasAlpha(m) == m \in {"RGBA", "LA"}
            f == calc.target_format
            m == calc.mode
            out == calc.out
        IN  /\ (f \in {"jpg", "jpeg"} /\ (HasAlpha(m) \/ m = "P")) =>
                  (~HasAlpha(out.mode) /\ out.mode # "P")
            /\ (f \in {"png", "webp", "tiff"} /\ ~HasAlpha(m)) =>
                  HasAlpha(out.mode)

\* C27: an RGBA source converted to "jpg" reaches the encoder as RGBA, under
\* a format name that has no writer.
C27_JpgKeepsAlpha ==
    /\ calc.fn = "convert" /\ calc.done
    /\ calc.target_format = "jpg" /\ calc.mode = "RGBA"
    /\ calc.out = [mode |-> "RGBA", saved |-> FALSE]

\* C28: in every reachable state the progress of every record is the decimal
\* form of an integer between 0 and 100, whatever the job type and the number
\* of sources of a merge.
C28_ProgressIsPercent ==
    \A t \in AnyId :
        store[t].progress # Absent =>
            \E n \in 0..100 : store[t].progress = ToString(n)

\* C28 witness: a merge of MaxFiles sources has stored the progress of its
\* last source.
C28_Witness ==
    \E t \in TaskIds :
        /\ queue[t].kind = "pdf.merge" /\ queue[t].n = MaxFiles
        /\ run[t].pc = "work" /\ run[t].i = MaxFiles
        /\ store[t].status = "processing"
        /\ store[t].progress = "80"

\* C29: whatever the interleaving of a cancel with a run of the same task,
\* no record has status cancelled together with progress 100 and a
\* result_url, or together with an error.
C29_CancelNotOverOutcome ==
    \A t \in TaskIds :
        store[t].status = "cancelled" =>
            /\ ~(store[t].progress = "100" /\ store[t].result_url # Absent)
            /\ store[t].error = Absent

\* C29: the cancel answered 200 and its write landed on a record that the
\* run had completed after the cancel's read.
C29_CancelledOverCompleted ==
    \E t \in TaskIds :
        /\ resp = Response("cancel", 200, t, EmptyHash)
        /\ store[t].status = "cancelled"
        /\ store[t].progress = "100"
        /\ store[t].result_url # Absent
        /\ run[t].outcome = "SUCCESS"

\* C30: under fair scheduling of the submitter, the workers and the API, a
\* task id that submit returned leads to a record with status completed,
\* failed or cancelled, unless a fetch of its run never returns; and no
\* record stays queued for ever once the run of its job has ended.
C30_ReturnedIdSettles ==
    /\ \A t \in TaskIds :
          (resp = Response("submit", 200, t, EmptyHash)) ~>
              (store[t].status \in Terminal \/ run[t].pc = "hung")
    /\ \A t \in TaskIds :
          ~<>[](store[t].status = "queued" /\ run[t].outcome # "none")

\* C30: the id was returned, the run of its job has ended with SUCCESS, and
\* the record says queued with progress 0.
C30_QueuedAfterSuccess ==
    \E t \in TaskIds :
        /\ resp = Response("submit", 200, t, EmptyHash)
        /\ run[t].outcome = "SUCCESS" /\ run[t].pc = "idle"
        /\ delivered[t] = 1
        /\ store[t].status = "queued" /\ store[t].progress = "0"
====
